---- MODULE Spec2Model ----
(***************************************************************************)
(* fillpdf: FDF encoding of a Form and the pdftk invocation around it.     *)
(*                                                                         *)
(* The repository holds two generations of the package:                    *)
(*   src/fillpdf.go         Fill (temporary directory + data.fdf file),    *)
(*                          createFdfFile(form, path)                      *)
(*   src/unnamed/part_000   FillFromReader (temporary fdf file, template   *)
(*                          on stdin), Fill (FDF on stdin, no temporary    *)
(*                          resource), createFdfFile(form) []byte, exists  *)
(* Definitions of the second file that share a name with the first carry   *)
(* the suffix _part000.                                                    *)
(***************************************************************************)
EXTENDS Integers, Sequences, FiniteSets, TLC

VARIABLES
    encForm,    \* encoder specification: the Form being encoded
    encOut,     \* encoder specification: the payloads produced so far
    pdftk,      \* environment: is pdftk resolvable on the search path
    fsys,       \* environment: the temporary directory, name -> entry
    pc,         \* per caller: position in the running call
    call,       \* per caller: the arguments of the running call
    loc,        \* per caller: the locals of the running call
    hist        \* per caller: what the running call has done so far

vars == <<encForm, encOut, pdftk, fsys, pc, call, loc, hist>>

(***************************************************************************)
(* Bounds                                                                  *)
(***************************************************************************)
\* float64 samples are m * 10^-e with m in Mantissas and e in 0..MaxFrac
MaxFrac == 2
\* number of names the temporary directory can hand out, per prefix
NumNames == 2
\* number of entries of the temporary directory whose removal may have failed
MaxLeaks == 1

(***************************************************************************)
(* Text helpers (strings are byte sequences)                               *)
(***************************************************************************)
StartsWith(s, p) == Len(s) >= Len(p) /\ SubSeq(s, 1, Len(p)) = p

EndsWith(s, p) == Len(s) >= Len(p) /\ SubSeq(s, Len(s) - Len(p) + 1, Len(s)) = p

\* positions of the line feeds of s
NewlinesOf(s) == {i \in 1..Len(s) : SubSeq(s, i, i) = "\n"}

\* the lines of s, each without its terminating line feed; text after the last
\* line feed is a last, unterminated line
Lines(s) ==
    LET nl == NewlinesOf(s)
        starts == {1} \cup {i + 1 : i \in nl}
        lineAt(b) ==
            LET after == {i \in nl : i >= b}
            IN  IF after = {} THEN SubSeq(s, b, Len(s))
                ELSE SubSeq(s, b, (CHOOSE i \in after : \A j \in after : i <= j) - 1)
        RECURSIVE collect(_)
        collect(B) ==
            IF B = {} THEN <<>>
            ELSE LET b == CHOOSE x \in B : \A y \in B : x <= y
                 IN  <<lineAt(b)>> \o collect(B \ {b})
    IN  collect({b \in starts : b <= Len(s)})

RECURSIVE Count(_, _)
Count(seq, x) ==
    IF seq = <<>> THEN 0
    ELSE (IF Head(seq) = x THEN 1 ELSE 0) + Count(Tail(seq), x)

Range(seq) == {seq[i] : i \in 1..Len(seq)}

\* the orders in which a map with key set K can be iterated
Perms(K) == {s \in [1..Cardinality(K) -> K] : Range(s) = K}

(***************************************************************************)
(* Form values: a tagged variant for Go's interface{}                      *)
(***************************************************************************)
BoolV(b) == [t |-> "bool", b |-> b, m |-> 0, e |-> 0, s |-> ""]

\* the float64 nearest to m * 10^-e
FloatV(m, e) == [t |-> "float64", b |-> FALSE, m |-> m, e |-> e, s |-> ""]

StringV(s) == [t |-> "string", b |-> FALSE, m |-> 0, e |-> 0, s |-> s]

Mantissas == {0, 10, 15, -5, 300}

Floats == {FloatV(m, e) : m \in Mantissas, e \in 0..MaxFrac}

Bools == {BoolV(TRUE), BoolV(FALSE)}

Strings == {StringV("Alice"), StringV("x)(\\")}

Values == Bools \cup Floats \cup Strings

Keys == {"Name", "a)b\\"}

ExampleForm ==
    [k \in {"Name", "Subscribed", "Age"} |->
        CASE k = "Name" -> StringV("Alice")
          [] k = "Subscribed" -> BoolV(TRUE)
          [] k = "Age" -> FloatV(300, 1)]

\* type Form map[string]interface{}
Form == UNION {[K -> Values] : K \in SUBSET Keys} \cup {ExampleForm}

(***************************************************************************)
(* strconv.FormatFloat(v, 'f', -1, 64)                                     *)
(***************************************************************************)
Digit(d) == SubSeq("0123456789", d + 1, d + 1)

RECURSIVE Itoa(_)
Itoa(n) == IF n < 10 THEN Digit(n) ELSE Itoa(n \div 10) \o Digit(n % 10)

RECURSIVE StripZeros(_)
StripZeros(d) ==
    IF Len(d) > 0 /\ SubSeq(d, Len(d), Len(d)) = "0"
    THEN StripZeros(SubSeq(d, 1, Len(d) - 1))
    ELSE d

RECURSIVE Zeros(_)
Zeros(n) == IF n <= 0 THEN "" ELSE "0" \o Zeros(n - 1)

\* the shortest decimal digits of |m| * 10^-e and the position of the decimal
\* point in front of them (0 digits at position 0 for zero)
ShortestDigits(m, e) ==
    LET a == IF m < 0 THEN -m ELSE m
        all == Itoa(a)
    IN  IF a = 0 THEN [d |-> "", dp |-> 0]
        ELSE [d |-> StripZeros(all), dp |-> Len(all) - e]

\* %f with the precision of the scale e, trailing zeros kept
FormatFloatFracNoStrip(m, e) ==
    LET a == IF m < 0 THEN -m ELSE m
        all == Itoa(a)
        pad == Zeros(e + 1 - Len(all)) \o all
    IN  (IF m < 0 THEN "-" ELSE "")
        \o SubSeq(pad, 1, Len(pad) - e)
        \o (IF e > 0 THEN "." \o SubSeq(pad, Len(pad) - e + 1, Len(pad)) ELSE "")

\* strconv.FormatFloat(v, 'f', -1, 64): %f with the precision the shortest digits need, max(nd - dp, 0)
FormatFloat(m, e) ==
    LET sd == ShortestDigits(m, e)
        nd == Len(sd.d)
        prec == IF nd - sd.dp > 0 THEN nd - sd.dp ELSE 0
        digitAt(i) == IF i >= 1 /\ i <= nd THEN SubSeq(sd.d, i, i) ELSE "0"
        RECURSIVE from(_, _)
        from(i, n) == IF n <= 0 THEN "" ELSE digitAt(i) \o from(i + 1, n - 1)
        intPart == IF sd.dp > 0 THEN from(1, sd.dp) ELSE "0"
        fracPart == IF prec > 0 THEN "." \o from(sd.dp + 1, prec) ELSE ""
    IN  (IF m < 0 THEN "-" ELSE "") \o intPart \o fracPart

(***************************************************************************)
(* createFdfFile                                                           *)
(***************************************************************************)
fdfHeader == "%FDF-1.2\n%,,oe\"\n1 0 obj\n<<\n/FDF << /Fields ["

fdfFooter == "]\n>>\n>>\nendobj\ntrailer\n<<\n/Root 1 0 R\n>>\n%%EOF"

fdfHeader_part000 == "%FDF-1.2\n %,,oe\"\n 1 0 obj\n <<\n /FDF << /Fields ["

fdfFooter_part000 == "]\n >>\n >>\n endobj\n trailer\n <<\n /Root 1 0 R\n >>\n %%EOF"

\* the type switch of the loop body
valStrNoStrip(value) ==
    CASE value.t = "bool" -> IF value.b THEN "Yes" ELSE "Off"
      [] value.t = "float64" -> FormatFloatFracNoStrip(value.m, value.e)
      [] OTHER -> value.s

valStr(value) ==
    CASE value.t = "bool" -> IF value.b THEN "Yes" ELSE "Off"
      [] value.t = "float64" -> FormatFloat(value.m, value.e)
      [] OTHER -> value.s

\* fmt.Fprintf(w, "<< /T (%s) /V (%s)>>\n", key, valStr)
fieldEntry(key, value) == "<< /T (" \o key \o ") /V (" \o valStr(value) \o ")>>\n"

\* for key, value := range form, in the iteration order the runtime picked
RECURSIVE writeFields(_, _)
writeFields(form, order) ==
    IF order = <<>> THEN ""
    ELSE fieldEntry(Head(order), form[Head(order)]) \o writeFields(form, Tail(order))

\* faulty encoders: the footer written first, and an encoder whose output depends on the iteration order
createFdfFileFooterFirst(form, order) ==
    fdfHeader \o "\n" \o fdfFooter \o "\n" \o writeFields(form, order)

createFdfFileOrderStamped(form, order) ==
    fdfHeader_part000 \o "\n"
    \o (IF order = <<>> THEN "" ELSE "<< /T (" \o Head(order) \o ") /V ()>>\n")
    \o (IF order = <<>> THEN "" ELSE writeFields(form, Tail(order)))
    \o fdfFooter_part000 \o "\n"

\* src/fillpdf.go: the bytes written through w to the file at path
createFdfFile(form, order) ==
    fdfHeader \o "\n" \o writeFields(form, order) \o fdfFooter \o "\n"

\* src/unnamed/part_000: the bytes returned
createFdfFile_part000(form, order) ==
    fdfHeader_part000 \o "\n" \o writeFields(form, order) \o fdfFooter_part000 \o "\n"

(***************************************************************************)
(* Encoder specification: a Form is drawn, then encoded twice, each time   *)
(* in an iteration order the runtime picks (Go randomises map iteration).  *)
(***************************************************************************)
\* the callers: caller 1 alone in the sequential specification, both of them,
\* each inside a call of its own, in the concurrent one
Callers == {1, 2}

NoEntry == [kind |-> "none", fdf |-> <<>>]

\* the names ioutil.TempDir("", "fillpdf-") and os.CreateTemp("", "fdf") can try
TempName(prefix, n) == "/tmp/" \o prefix \o Itoa(n)

TmpNames == {TempName(pre, n) : pre \in {"fillpdf-", "fdf"}, n \in 1..NumNames}

NoCall == [fn |-> "", form |-> <<>>, formPDFFile |-> "", pdfFile |-> ""]

NoLoc == [formPDFFile |-> "", tmp |-> "", fdf |-> <<>>, out |-> <<>>,
          result |-> <<>>, err |-> <<>>]

NoHist == [stages |-> <<>>, created |-> <<>>, removals |-> <<>>, spawns |-> <<>>,
           wrote |-> <<>>, logged |-> FALSE, removeFailed |-> FALSE,
           leftBehind |-> {}]

IdleCallers ==
    /\ pc = [p \in Callers |-> "idle"]
    /\ call = [p \in Callers |-> NoCall]
    /\ loc = [p \in Callers |-> NoLoc]
    /\ hist = [p \in Callers |-> NoHist]
    /\ fsys = [n \in TmpNames |-> NoEntry]

procVars == <<pdftk, fsys, pc, call, loc, hist>>

InitEnc ==
    /\ encForm \in Form
    /\ encOut = <<>>
    /\ pdftk = TRUE
    /\ IdleCallers

\* one call of each createFdfFile on encForm
Encode ==
    /\ Len(encOut) < 2
    /\ \E order \in Perms(DOMAIN encForm) :
          encOut' = Append(encOut,
                       [order |-> order,
                        v1 |-> createFdfFile(encForm, order),
                        v2 |-> createFdfFile_part000(encForm, order)])
    /\ UNCHANGED <<encForm, procVars>>

NextEnc == Encode

SpecEnc == InitEnc /\ [][NextEnc]_vars

(***************************************************************************)
(* Reading a payload back                                                  *)
(***************************************************************************)
\* the places where sep occurs in s
Occurrences(s, sep) ==
    {i \in 1..(Len(s) - Len(sep) + 1) : SubSeq(s, i, i + Len(sep) - 1) = sep}

IsEntryLine(line) == StartsWith(line, "<< /T (") /\ EndsWith(line, ")>>")

\* an entry line split at its last ") /V (": [key, value], or <<>> for a line
\* that is not an entry
DecodeEntry(line) ==
    IF ~IsEntryLine(line) THEN <<>>
    ELSE LET inner == SubSeq(line, 8, Len(line) - 3)
             at == Occurrences(inner, ") /V (")
         IN  IF at = {} THEN <<>>
             ELSE LET i == CHOOSE x \in at : \A y \in at : y <= x
                  IN  <<[key |-> SubSeq(inner, 1, i - 1),
                         value |-> SubSeq(inner, i + 6, Len(inner))]>>

\* the entries a reader finds in a payload, in the order of their lines
RECURSIVE DecodeLines(_)
DecodeLines(lines) ==
    IF lines = <<>> THEN <<>>
    ELSE DecodeEntry(Head(lines)) \o DecodeLines(Tail(lines))

Decode(payload) == DecodeLines(Lines(payload))

IsDigit(c) == \E d \in 0..9 : Digit(d) = c

DigitVal(c) == CHOOSE d \in 0..9 : Digit(d) = c

RECURSIVE Atoi(_)
Atoi(t) == IF t = "" THEN 0 ELSE 10 * Atoi(SubSeq(t, 1, Len(t) - 1)) + DigitVal(SubSeq(t, Len(t), Len(t)))

RECURSIVE Pow10(_)
Pow10(n) == IF n <= 0 THEN 1 ELSE 10 * Pow10(n - 1)

\* t is [-]digits[.digits] with at least one digit on each side of a point
IsPlainDecimal(t) ==
    LET u == IF StartsWith(t, "-") THEN Tail(t) ELSE t
        dots == Occurrences(u, ".")
    IN  /\ Len(u) > 0
        /\ Cardinality(dots) <= 1
        /\ \A i \in 1..Len(u) : i \in dots \/ IsDigit(SubSeq(u, i, i))
        /\ 1 \notin dots /\ Len(u) \notin dots

\* the number a plain decimal denotes, as [m, e] for m * 10^-e
ParseDecimal(t) ==
    LET neg == StartsWith(t, "-")
        u == IF neg THEN Tail(t) ELSE t
        dots == Occurrences(u, ".")
        d == IF dots = {} THEN Len(u) + 1 ELSE CHOOSE i \in dots : TRUE
        digits == SubSeq(u, 1, d - 1) \o SubSeq(u, d + 1, Len(u))
    IN  [m |-> (IF neg THEN -1 ELSE 1) * Atoi(digits), e |-> IF dots = {} THEN 0 ELSE Len(u) - d]

HasFraction(t) == Occurrences(t, ".") # {}

\* the text of a float64 the claims ask for: the number itself, in plain decimal,
\* without trailing zeros after the point
IsMinimalDecimalOf(t, m, e) ==
    /\ IsPlainDecimal(t)
    /\ HasFraction(t) => ~EndsWith(t, "0")
    /\ LET q == ParseDecimal(t)
       IN  q.m * Pow10(e) = m * Pow10(q.e)

ExpectedText(value, t) ==
    CASE value.t = "bool" -> t = (IF value.b THEN "Yes" ELSE "Off")
      [] value.t = "float64" -> IsMinimalDecimalOf(t, value.m, value.e)
      [] OTHER -> t = value.s

OnlyBoolsAndFloats(form) == \A k \in DOMAIN form : form[k] \in Bools \cup Floats

Payloads == {encOut[i].v1 : i \in 1..Len(encOut)} \cup {encOut[i].v2 : i \in 1..Len(encOut)}

\* C6: for a Form of booleans and float64s the payload holds exactly one entry
\* per map key and no other entry; its value text is Yes for true, Off for false,
\* and for a number the plain decimal of that number (no exponent) without
\* trailing zeros after the point.
C6_OneEntryPerKey ==
    OnlyBoolsAndFloats(encForm) =>
        \A o \in Payloads :
            LET es == Decode(o)
            IN  /\ Len(es) = Cardinality(DOMAIN encForm)
                /\ \A k \in DOMAIN encForm :
                      /\ Cardinality({i \in 1..Len(es) : es[i].key = k}) = 1
                      /\ \A i \in 1..Len(es) :
                            es[i].key = k => ExpectedText(encForm[k], es[i].value)

C6_Witness ==
    /\ Len(encOut) = 2
    /\ DOMAIN encForm = Keys
    /\ encForm["Name"] = FloatV(10, 1)
    /\ encForm["a)b\\"] = BoolV(FALSE)

\* the lines of a payload between its first nh and its last nf lines
Middle(lines, nh, nf) == SubSeq(lines, nh + 1, Len(lines) - nf)

\* payload o is header h, then one entry line per element of order, then footer f
Enveloped(o, h, f, form, order) ==
    LET lines == Lines(o)
        nh == Len(Lines(h))
        nf == Len(Lines(f))
        mid == Middle(lines, nh, nf)
    IN  /\ StartsWith(o, h \o "\n")
        /\ EndsWith(o, f \o "\n")
        /\ EndsWith(lines[Len(lines)], "%%EOF")
        /\ Len(lines) = nh + Len(order) + nf
        /\ \A j \in 1..Len(lines) : IsEntryLine(lines[j]) <=> (j > nh /\ j <= nh + Len(order))
        /\ \A j \in 1..Len(order) :
              LET pre == "<< /T (" \o order[j] \o ") /V ("
              IN  /\ StartsWith(mid[j], pre)
                  /\ EndsWith(mid[j], ")>>")
                  /\ Len(mid[j]) >= Len(pre) + 3
                  /\ ExpectedText(form[order[j]],
                                  SubSeq(mid[j], Len(pre) + 1, Len(mid[j]) - 3))
        /\ (order = <<>> => o = h \o "\n" \o f \o "\n")

\* C7: every payload is the fixed header block, then one line
\* << /T (name) /V (value)>> per form field with name and value unescaped, then
\* the fixed footer block whose last line is %%EOF; no entry stands before the
\* header or after the footer, and an empty Form gives header then footer.
C7_Envelope ==
    \A i \in 1..Len(encOut) :
        /\ Enveloped(encOut[i].v1, fdfHeader, fdfFooter, encForm, encOut[i].order)
        /\ Enveloped(encOut[i].v2, fdfHeader_part000, fdfFooter_part000, encForm,
                     encOut[i].order)

C7_Witness ==
    /\ Len(encOut) = 1
    /\ DOMAIN encForm = Keys
    /\ encForm["a)b\\"] = StringV("x)(\\")
    /\ encOut[1].order = <<"a)b\\", "Name">>

SameBag(s1, s2) ==
    /\ Len(s1) = Len(s2)
    /\ \A x \in Range(s1) \cup Range(s2) : Count(s1, x) = Count(s2, x)

SameUpToOrder(o1, o2, h, f) ==
    LET l1 == Lines(o1)
        l2 == Lines(o2)
        nh == Len(Lines(h))
        nf == Len(Lines(f))
    IN  /\ Len(o1) = Len(o2)
        /\ SubSeq(l1, 1, nh) = SubSeq(l2, 1, nh)
        /\ SubSeq(l1, Len(l1) - nf + 1, Len(l1)) = SubSeq(l2, Len(l2) - nf + 1, Len(l2))
        /\ Range(Middle(l1, nh, nf)) = Range(Middle(l2, nh, nf))
        /\ SameBag(Middle(l1, nh, nf), Middle(l2, nh, nf))

\* C8: two encodings of the same Form have the same header lines, the same
\* footer lines and the same entry lines (as a set and as a bag): they are
\* byte-identical up to the order of the entries.
C8_EncodeTwice ==
    Len(encOut) = 2 =>
        /\ SameUpToOrder(encOut[1].v2, encOut[2].v2, fdfHeader_part000, fdfFooter_part000)
        /\ SameUpToOrder(encOut[1].v1, encOut[2].v1, fdfHeader, fdfFooter)

C8_Witness ==
    /\ Len(encOut) = 2
    /\ encOut[1].order # encOut[2].order
    /\ encOut[1].v2 # encOut[2].v2
    /\ encForm = ExampleForm

(***************************************************************************)
(* The environment of a fill call                                          *)
(***************************************************************************)
\* the template paths callers pass
TemplatePaths ==
    {"/srv/form.pdf", "form.pdf", "/srv/missing.pdf", "missing.pdf",
     "/srv/locked/form.pdf"}

\* the Forms callers pass to the fill functions
EmptyForm == [k \in {} |-> BoolV(TRUE)]

OneField == [k \in {"Field1"} |-> StringV("hello")]

ProcForms == {EmptyForm, OneField}

\* the template bytes a caller of FillFromReader supplies
TemplateStream == "%PDF-1.4 template"

\* filepath.Abs: an absolute path is returned as it is, a relative one is joined
\* to the working directory, which os.Getwd may fail to give
Abs(path, wdOk) ==
    IF StartsWith(path, "/") THEN [path |-> path, err |-> <<>>]
    ELSE IF wdOk THEN [path |-> "/work/" \o path, err |-> <<>>]
    ELSE [path |-> "", err |-> <<"getwd: no such file or directory">>]

\* os.Stat on the paths of this environment: "" for success, else the errno
Stat(path) ==
    CASE path \in {"/srv/form.pdf", "/work/form.pdf"} -> ""
      [] path \in {"/srv/missing.pdf", "/work/missing.pdf"} -> "ENOENT"
      [] OTHER -> "EACCES"

\* exists treating every failed stat as "does not exist"
existsNoAccessError(path) ==
    [e |-> Stat(path) = "", err |-> <<>>]

\* exists returns whether the given file or directory exists or not
exists(path) ==
    LET errno == Stat(path)
    IN  IF errno = "" THEN [e |-> TRUE, err |-> <<>>]
        ELSE IF errno = "ENOENT" THEN [e |-> FALSE, err |-> <<>>]
        ELSE [e |-> FALSE, err |-> <<"stat " \o path \o ": " \o errno>>]

\* what a run of pdftk can end with: exit code, standard output, standard error
ExitOutcomes ==
    {[code |-> 0, stdout |-> "%PDF-1.4 filled A", stderr |-> ""],
     [code |-> 0, stdout |-> "%PDF-1.4 filled B", stderr |-> ""],
     [code |-> 1, stdout |-> "Done. Input errors, so no output created.",
      stderr |-> "Error: Failed to open form data file"]}

\* (*exec.ExitError).Error()
ExitErrorText(o) == "exit status " \o Itoa(o.code)

\* the error of a process that could not be started
SpawnErrorText == "fork/exec /usr/bin/pdftk: resource temporarily unavailable"

Contains(s, sub) == Occurrences(s, sub) # {}

(***************************************************************************)
(* Steps of a call                                                         *)
(***************************************************************************)
Upd(p, npc, nloc, nhist) ==
    /\ pc' = [pc EXCEPT ![p] = npc]
    /\ loc' = [loc EXCEPT ![p] = nloc]
    /\ hist' = [hist EXCEPT ![p] = nhist]

Stage(h, name, ok) == [h EXCEPT !.stages = Append(@, [s |-> name, ok |-> ok])]

\* the names created by the call that the file system holds when it returns
LeftBehind(h, fs) == {n \in Range(h.created) : fs[n].kind # "none"}

\* return result, err: the call is over, with fs the file system it leaves
Return(p, l, h, fs) ==
    Upd(p, "returned", l, [Stage(h, "return", TRUE) EXCEPT !.leftBehind = LeftBehind(h, fs)])

Fail(l, msg) == [l EXCEPT !.result = <<>>, !.err = <<msg>>]

\* a caller enters Fill (src/fillpdf.go), FillFromReader or Fill (part_000)
Call(p) ==
    /\ pc[p] \in {"idle", "returned"}
    /\ \E fn \in {"Fill", "FillFromReader", "Fill_part000"}, form \in ProcForms,
          path \in TemplatePaths :
          /\ fn = "FillFromReader" => path = "/srv/form.pdf"
          /\ call' = [call EXCEPT ![p] =
                        [fn |-> fn, form |-> form,
                         formPDFFile |-> IF fn = "FillFromReader" THEN "" ELSE path,
                         pdfFile |-> IF fn = "FillFromReader" THEN TemplateStream ELSE ""]]
          /\ Upd(p, IF fn = "FillFromReader" THEN "r_lookpath" ELSE "abs", NoLoc, NoHist)
    /\ UNCHANGED <<encForm, encOut, pdftk, fsys>>

\* Fill, both files: formPDFFile, err = filepath.Abs(formPDFFile)
FillAbs(p) ==
    /\ pc[p] = "abs"
    /\ \E wdOk \in BOOLEAN :
          LET r == Abs(call[p].formPDFFile, wdOk)
          IN  IF r.err # <<>>
              THEN Return(p, Fail(loc[p], "failed to create the absolute path: " \o r.err[1]),
                          Stage(hist[p], "abs", FALSE), fsys)
              ELSE Upd(p, "exists", [loc[p] EXCEPT !.formPDFFile = r.path],
                       Stage(hist[p], "abs", TRUE))
    /\ UNCHANGED <<encForm, encOut, pdftk, fsys, call>>

NotFoundText(fn, path) ==
    IF fn = "Fill" THEN "form PDF file does not exists: '" \o path \o "'"
    ELSE "form PDF file does not exist: '" \o path \o "'"

\* Fill, both files: e, err := exists(formPDFFile)
FillExists(p) ==
    /\ pc[p] = "exists"
    /\ LET r == exists(loc[p].formPDFFile)
       IN  IF r.err # <<>>
           THEN Return(p, Fail(loc[p], "failed to check if form PDF file exists: " \o r.err[1]),
                       Stage(hist[p], "exists", FALSE), fsys)
           ELSE IF ~r.e
           THEN Return(p, Fail(loc[p], NotFoundText(call[p].fn, loc[p].formPDFFile)),
                       Stage(hist[p], "exists", FALSE), fsys)
           ELSE Upd(p, "lookpath", loc[p], Stage(hist[p], "exists", TRUE))
    /\ UNCHANGED <<encForm, encOut, pdftk, fsys, call>>

\* a lookup that finds the tool wherever it is
LookPathAlwaysFound == TRUE

\* exec.LookPath("pdftk")
LookPath == pdftk

\* Fill, both files: _, err = exec.LookPath("pdftk")
FillLookPath(p) ==
    /\ pc[p] = "lookpath"
    /\ IF ~LookPath
       THEN Return(p, Fail(loc[p], "pdftk utility is not installed!"),
                   Stage(hist[p], "lookpath", FALSE), fsys)
       ELSE Upd(p, IF call[p].fn = "Fill" THEN "tempdir" ELSE "s_start", loc[p],
                Stage(hist[p], "lookpath", TRUE))
    /\ UNCHANGED <<encForm, encOut, pdftk, fsys, call>>

(***************************************************************************)
(* Fill of src/fillpdf.go after validation                                 *)
(***************************************************************************)
\* a temporary directory with one fixed name
FixedNames(prefix) == {TempName(prefix, 1)}

\* the names TempDir / CreateTemp can create: they try names until one does not
\* exist yet (Mkdir, and Open with O_EXCL, fail on an existing name)
FreshNames(prefix) ==
    {TempName(prefix, n) : n \in 1..NumNames} \cap {n \in TmpNames : fsys[n].kind = "none"}

\* the entries no running call holds: their removal failed
Leaked ==
    {n \in TmpNames : fsys[n].kind # "none"
                       /\ \A q \in Callers : pc[q] = "returned" \/ loc[q].tmp # n}

\* the outcomes a removal can have: it may fail while the environment allows
\* another leaked entry
RemoveOutcomes == IF Cardinality(Leaked) < MaxLeaks THEN BOOLEAN ELSE {TRUE}

\* os.RemoveAll / os.Remove that reports success and removes nothing
RemoveNothing(fs, name, ok) == fs

\* os.RemoveAll(path), os.Remove(name): the entry is gone when the call succeeds
Remove(fs, name, ok) == IF ok THEN [fs EXCEPT ![name] = NoEntry] ELSE fs

\* tmpDir, err := ioutil.TempDir("", "fillpdf-"), and the defer of its removal
FillTempDir(p) ==
    /\ pc[p] = "tempdir"
    /\ \/ /\ Return(p, Fail(loc[p], "failed to create temporary directory: mkdir /tmp: no space left on device"),
                    Stage(hist[p], "tempdir", FALSE), fsys)
          /\ UNCHANGED fsys
       \/ \E name \in FreshNames("fillpdf-") :
             /\ fsys' = [fsys EXCEPT ![name] = [kind |-> "dir", fdf |-> <<>>]]
             /\ Upd(p, "createfdf", [loc[p] EXCEPT !.tmp = name],
                    [Stage(hist[p], "tempdir", TRUE) EXCEPT !.created = Append(@, name)])
    /\ UNCHANGED <<encForm, encOut, pdftk, call>>

\* what a failed flush leaves in the file
Partial(payload) == SubSeq(payload, 1, 8)

\* err = createFdfFile(form, fdfFile) with fdfFile = tmpDir + "/data.fdf"
FillCreateFdf(p) ==
    /\ pc[p] = "createfdf"
    /\ \E order \in Perms(DOMAIN call[p].form), outcome \in {"ok", "create", "flush"} :
          LET payload == createFdfFile(call[p].form, order)
              dir == loc[p].tmp
              msg == "failed to create fdf form data file: "
          IN  /\ (fsys[dir].kind # "dir") => outcome = "create"
              /\ CASE outcome = "ok" ->
                        /\ fsys' = [fsys EXCEPT ![dir].fdf = <<payload>>]
                        /\ Upd(p, "run", loc[p],
                               [Stage(hist[p], "createfdf", TRUE) EXCEPT !.wrote = <<payload>>])
                   [] outcome = "create" ->
                        /\ UNCHANGED fsys
                        /\ Upd(p, "cleanup",
                               Fail(loc[p], msg \o "open " \o dir \o "/data.fdf: permission denied"),
                               Stage(hist[p], "createfdf", FALSE))
                   [] outcome = "flush" ->
                        /\ fsys' = [fsys EXCEPT ![dir].fdf = <<Partial(payload)>>]
                        /\ Upd(p, "cleanup",
                               Fail(loc[p], msg \o "write " \o dir \o "/data.fdf: no space left on device"),
                               [Stage(hist[p], "createfdf", FALSE) EXCEPT
                                   !.wrote = <<Partial(payload)>>])
    /\ UNCHANGED <<encForm, encOut, pdftk, call>>

\* the data file named relative to the working directory
FillArgsRelative(p) == <<loc[p].formPDFFile, "fill_form", "data.fdf", "output", "-">>

\* args := []string{formPDFFile, "fill_form", fdfFile, "output", "-"}
FillArgs(p) == <<loc[p].formPDFFile, "fill_form", loc[p].tmp \o "/data.fdf", "output", "-">>

\* runCommandInPath(tmpDir, "pdftk", args...): the command, the directory it is
\* asked to run in, and the data file as the process finds it
FillCommand(p) ==
    [args |-> FillArgs(p), dir |-> loc[p].tmp, stdin |-> "",
     fdfSeen |-> fsys[loc[p].tmp].fdf]

\* runCommandInPath: the error of a failed run carries what the tool printed
RunCommandInPathError(o) == ExitErrorText(o) \o ": " \o o.stderr \o o.stdout

\* out, err := runCommandInPath(tmpDir, "pdftk", args...): the process starts
FillRunStart(p) ==
    /\ pc[p] = "run"
    /\ \E started \in BOOLEAN :
          LET h == [hist[p] EXCEPT !.spawns = Append(@, FillCommand(p))]
          IN  IF started
              THEN Upd(p, "wait", loc[p], h)
              ELSE Upd(p, "cleanup", Fail(loc[p], "pdftk error: " \o SpawnErrorText),
                       Stage(h, "spawn", FALSE))
    /\ UNCHANGED <<encForm, encOut, pdftk, fsys, call>>

\* out, err := runCommandInPath(tmpDir, "pdftk", args...): the process ends
FillRunWait(p) ==
    /\ pc[p] = "wait"
    /\ \E o \in ExitOutcomes :
          IF o.code = 0
          THEN Upd(p, "cleanup", [loc[p] EXCEPT !.out = <<o>>, !.result = <<o.stdout>>],
                   Stage(hist[p], "spawn", TRUE))
          ELSE Upd(p, "cleanup",
                   [Fail(loc[p], "pdftk error: " \o RunCommandInPathError(o)) EXCEPT !.out = <<o>>],
                   Stage(hist[p], "spawn", FALSE))
    /\ UNCHANGED <<encForm, encOut, pdftk, fsys, call>>

\* the deferred func: errD := os.RemoveAll(tmpDir), logged when it fails; then
\* the call returns what the body set
FillCleanup(p) ==
    /\ pc[p] = "cleanup"
    /\ \E ok \in RemoveOutcomes :
          LET fs == Remove(fsys, loc[p].tmp, ok)
              h == [Stage(hist[p], "cleanup", ok) EXCEPT
                       !.removals = Append(@, loc[p].tmp),
                       !.removeFailed = ~ok,
                       !.logged = ~ok]
          IN  /\ fsys' = fs
              /\ Return(p, loc[p], h, fs)
    /\ UNCHANGED <<encForm, encOut, pdftk, call>>

(***************************************************************************)
(* FillFromReader of src/unnamed/part_000                                  *)
(***************************************************************************)
\* _, err = exec.LookPath("pdftk")
FfrLookPath(p) ==
    /\ pc[p] = "r_lookpath"
    /\ IF ~LookPath
       THEN Return(p, Fail(loc[p], "pdftk utility is not installed!"),
                   Stage(hist[p], "lookpath", FALSE), fsys)
       ELSE Upd(p, "r_createtemp", loc[p], Stage(hist[p], "lookpath", TRUE))
    /\ UNCHANGED <<encForm, encOut, pdftk, fsys, call>>

\* fdfFile := createFdfFile(form); f, err := os.CreateTemp("", "fdf");
\* defer os.Remove(f.Name())
FfrCreateTemp(p) ==
    /\ pc[p] = "r_createtemp"
    /\ \E order \in Perms(DOMAIN call[p].form) :
          LET fdfFile == createFdfFile_part000(call[p].form, order)
          IN  \/ /\ Return(p, Fail(loc[p], "open /tmp/fdf: too many open files"),
                           Stage(hist[p], "createtemp", FALSE), fsys)
                 /\ UNCHANGED fsys
              \/ \E name \in FreshNames("fdf") :
                    /\ fsys' = [fsys EXCEPT ![name] = [kind |-> "file", fdf |-> <<"">>]]
                    /\ Upd(p, "r_write", [loc[p] EXCEPT !.tmp = name, !.fdf = <<fdfFile>>],
                           [Stage(hist[p], "createtemp", TRUE) EXCEPT !.created = Append(@, name)])
    /\ UNCHANGED <<encForm, encOut, pdftk, call>>

\* _, err = f.Write(fdfFile): through the open descriptor, whatever became of
\* the name
FfrWrite(p) ==
    /\ pc[p] = "r_write"
    /\ \E ok \in BOOLEAN :
          LET name == loc[p].tmp
              data == IF ok THEN loc[p].fdf[1] ELSE Partial(loc[p].fdf[1])
          IN  /\ fsys' = IF fsys[name].kind = "file"
                         THEN [fsys EXCEPT ![name].fdf = <<data>>]
                         ELSE fsys
              /\ IF ok
                 THEN Upd(p, "r_start", loc[p],
                          [Stage(hist[p], "write", TRUE) EXCEPT !.wrote = <<data>>])
                 ELSE Upd(p, "r_cleanup",
                          Fail(loc[p], "write " \o name \o ": no space left on device"),
                          [Stage(hist[p], "write", FALSE) EXCEPT !.wrote = <<data>>])
    /\ UNCHANGED <<encForm, encOut, pdftk, call>>

\* the template and the data file swapped
FfrArgsFdfOnStdin(p) == <<loc[p].tmp, "fill_form", "-", "output", "-">>

\* args := []string{"-", "fill_form", f.Name(), "output", "-"}
FfrArgs(p) == <<"-", "fill_form", loc[p].tmp, "output", "-">>

\* cmd := exec.Command("pdftk", args...); cmd.Stdin = pdfFile
FfrCommand(p) ==
    [args |-> FfrArgs(p), dir |-> "", stdin |-> call[p].pdfFile,
     fdfSeen |-> fsys[loc[p].tmp].fdf]

\* out, err := cmd.Output(): the process starts
FfrStart(p) ==
    /\ pc[p] = "r_start"
    /\ \E started \in BOOLEAN :
          LET h == [hist[p] EXCEPT !.spawns = Append(@, FfrCommand(p))]
          IN  IF started
              THEN Upd(p, "r_wait", loc[p], h)
              ELSE Upd(p, "r_cleanup",
                       Fail(loc[p], "pdftk error: " \o SpawnErrorText \o "\nOutput: "),
                       Stage(h, "spawn", FALSE))
    /\ UNCHANGED <<encForm, encOut, pdftk, fsys, call>>

\* return bytes.NewReader(out), nil
FfrResult(o) == <<o.stdout>>

\* out, err := cmd.Output(): the process ends
FfrWait(p) ==
    /\ pc[p] = "r_wait"
    /\ \E o \in ExitOutcomes :
          IF o.code = 0
          THEN Upd(p, "r_cleanup", [loc[p] EXCEPT !.out = <<o>>, !.result = FfrResult(o)],
                   Stage(hist[p], "spawn", TRUE))
          ELSE Upd(p, "r_cleanup",
                   [Fail(loc[p], "pdftk error: " \o ExitErrorText(o) \o "\nOutput: " \o o.stdout)
                       EXCEPT !.out = <<o>>],
                   Stage(hist[p], "spawn", FALSE))
    /\ UNCHANGED <<encForm, encOut, pdftk, fsys, call>>

\* the deferred os.Remove(f.Name()), its error dropped; then the call returns
FfrCleanup(p) ==
    /\ pc[p] = "r_cleanup"
    /\ \E ok \in RemoveOutcomes :
          LET fs == Remove(fsys, loc[p].tmp, ok)
              h == [Stage(hist[p], "cleanup", ok) EXCEPT
                       !.removals = Append(@, loc[p].tmp),
                       !.removeFailed = ~ok]
          IN  /\ fsys' = fs
              /\ Return(p, loc[p], h, fs)
    /\ UNCHANGED <<encForm, encOut, pdftk, call>>

(***************************************************************************)
(* Fill of src/unnamed/part_000 after validation                           *)
(***************************************************************************)
\* fdfFile := createFdfFile(form); args := []string{formPDFFile, "fill_form",
\* "-", "output", "-"}; cmd.Stdin = bytes.NewReader(fdfFile)
Fill_part000Command(p, fdfFile) ==
    [args |-> <<loc[p].formPDFFile, "fill_form", "-", "output", "-">>, dir |-> "",
     stdin |-> fdfFile, fdfSeen |-> <<>>]

\* out, err := cmd.Output(): the process starts
Fill_part000Start(p) ==
    /\ pc[p] = "s_start"
    /\ \E order \in Perms(DOMAIN call[p].form), started \in BOOLEAN :
          LET fdfFile == createFdfFile_part000(call[p].form, order)
              l == [loc[p] EXCEPT !.fdf = <<fdfFile>>]
              h == [hist[p] EXCEPT !.spawns = Append(@, Fill_part000Command(p, fdfFile))]
          IN  IF started
              THEN Upd(p, "s_wait", l, h)
              ELSE Return(p, Fail(l, "pdftk error: " \o SpawnErrorText),
                          Stage(h, "spawn", FALSE), fsys)
    /\ UNCHANGED <<encForm, encOut, pdftk, fsys, call>>

\* out, err := cmd.Output(): the process ends
Fill_part000Wait(p) ==
    /\ pc[p] = "s_wait"
    /\ \E o \in ExitOutcomes :
          IF o.code = 0
          THEN Return(p, [loc[p] EXCEPT !.out = <<o>>, !.result = <<o.stdout>>],
                      Stage(hist[p], "spawn", TRUE), fsys)
          ELSE Return(p, [Fail(loc[p], "pdftk error: " \o ExitErrorText(o)) EXCEPT !.out = <<o>>],
                      Stage(hist[p], "spawn", FALSE), fsys)
    /\ UNCHANGED <<encForm, encOut, pdftk, fsys, call>>

(***************************************************************************)
(* The callers                                                             *)
(***************************************************************************)
Init ==
    /\ encForm = EmptyForm
    /\ encOut = <<>>
    /\ pdftk \in BOOLEAN
    /\ IdleCallers

\* the steps of a running call
Steps(p) ==
    \/ FillAbs(p)
    \/ FillExists(p)
    \/ FillLookPath(p)
    \/ FillTempDir(p)
    \/ FillCreateFdf(p)
    \/ FillRunStart(p)
    \/ FillRunWait(p)
    \/ FillCleanup(p)
    \/ FfrLookPath(p)
    \/ FfrCreateTemp(p)
    \/ FfrWrite(p)
    \/ FfrStart(p)
    \/ FfrWait(p)
    \/ FfrCleanup(p)
    \/ Fill_part000Start(p)
    \/ Fill_part000Wait(p)

\* one caller, making one call after the other
Next == Call(1) \/ Steps(1)

Spec == Init /\ [][Next]_vars

\* a caller enters a call that passes validation
CallConc(p) ==
    /\ pc[p] \in {"idle", "returned"}
    /\ \E fn \in {"Fill", "FillFromReader"} :
          /\ call' = [call EXCEPT ![p] =
                        [fn |-> fn, form |-> OneField,
                         formPDFFile |-> IF fn = "FillFromReader" THEN "" ELSE "/srv/form.pdf",
                         pdfFile |-> IF fn = "FillFromReader" THEN TemplateStream ELSE ""]]
          /\ Upd(p, IF fn = "FillFromReader" THEN "r_lookpath" ELSE "abs", NoLoc, NoHist)
    /\ UNCHANGED <<encForm, encOut, pdftk, fsys>>

InitConc ==
    /\ encForm = EmptyForm
    /\ encOut = <<>>
    /\ pdftk = TRUE
    /\ IdleCallers

\* several callers inside fill calls at the same time
NextConc ==
    \E p \in Callers :
        \/ CallConc(p)
        \/ FillAbs(p)
        \/ FillExists(p)
        \/ FillLookPath(p)
        \/ FillTempDir(p)
        \/ FillCreateFdf(p)
        \/ FillRunStart(p)
        \/ FillRunWait(p)
        \/ FillCleanup(p)
        \/ FfrLookPath(p)
        \/ FfrCreateTemp(p)
        \/ FfrWrite(p)
        \/ FfrStart(p)
        \/ FfrWait(p)
        \/ FfrCleanup(p)

SpecConc == InitConc /\ [][NextConc]_vars

(***************************************************************************)
(* Properties of the fill calls                                            *)
(***************************************************************************)
Returned(p) == pc[p] = "returned"

IsToolMissing(e) == e = <<"pdftk utility is not installed!">>

IsTemplateNotFound(e) == e # <<>> /\ StartsWith(e[1], "form PDF file does not exist")

IsFsAccess(e) == e # <<>> /\ StartsWith(e[1], "failed to check if form PDF file exists: ")

IsPathResolution(e) == e # <<>> /\ StartsWith(e[1], "failed to create the absolute path: ")

IsToolExec(e) == e # <<>> /\ StartsWith(e[1], "pdftk error: ")

StageNames(h) == [i \in 1..Len(h.stages) |-> h.stages[i].s]

\* stage name ran and succeeded in the call
Passed(h, name) == \E i \in 1..Len(h.stages) : h.stages[i] = [s |-> name, ok |-> TRUE]

UsesTempArea(p) == call[p].fn \in {"Fill", "FillFromReader"}

\* C1 as claimed: on return of Fill or FillFromReader the transient working
\* area the call created no longer exists; the call created at most one and
\* removed it exactly once.
C1_NothingLeftBehind ==
    \A p \in Callers :
        Returned(p) /\ UsesTempArea(p) =>
            /\ Len(hist[p].created) <= 1
            /\ hist[p].removals = hist[p].created
            /\ hist[p].leftBehind = {}

\* C1 as amended: a call of Fill or FillFromReader creates at most one transient
\* working area and, on every return after creating it, has attempted its
\* removal exactly once; the area no longer exists on return unless that
\* removal itself failed, in which case the area is left behind, Fill has logged
\* the failure, and the call still returns its result or its error.
C1_RemovedOnceUnlessRemovalFails ==
    \A p \in Callers :
        /\ Len(hist[p].created) <= 1
        /\ Len(hist[p].removals) <= Len(hist[p].created)
        /\ Returned(p) /\ UsesTempArea(p) =>
              /\ hist[p].removals = hist[p].created
              /\ hist[p].leftBehind # {} => hist[p].removeFailed
              /\ hist[p].removeFailed /\ call[p].fn = "Fill" => hist[p].logged
              /\ (loc[p].result = <<>>) # (loc[p].err = <<>>)

C1_Witness ==
    /\ Returned(1)
    /\ call[1].fn = "Fill"
    /\ hist[1].created # <<>>
    /\ hist[1].wrote = <<"%FDF-1.2">>
    /\ loc[1].err # <<>>
    /\ hist[1].leftBehind = {}

\* C2 as claimed: when pdftk is not resolvable, Fill and FillFromReader return
\* the tool-missing error and no result, having created no temporary file or
\* directory and spawned no process.
C2_ToolMissingError ==
    \A p \in Callers :
        Returned(p) /\ ~pdftk =>
            /\ IsToolMissing(loc[p].err)
            /\ loc[p].result = <<>>
            /\ hist[p].created = <<>>
            /\ hist[p].spawns = <<>>

\* C2 as amended: when pdftk is not resolvable, FillFromReader always, and Fill
\* whenever path resolution and the template existence check succeeded, return
\* the tool-missing error; every call returns an error and no result, has
\* created no temporary file or directory and has spawned no process: the
\* tool lookup precedes every temporary-resource creation and every spawn.
C2_ToolMissingNoResources ==
    \A p \in Callers :
        /\ (hist[p].created # <<>> \/ hist[p].spawns # <<>>) =>
              pdftk /\ Passed(hist[p], "lookpath")
        /\ ~pdftk => \A n \in TmpNames : fsys[n] = NoEntry
        /\ Returned(p) /\ ~pdftk =>
              /\ loc[p].result = <<>>
              /\ loc[p].err # <<>>
              /\ (call[p].fn = "FillFromReader" \/ Passed(hist[p], "exists")) =>
                    IsToolMissing(loc[p].err)

C2_Witness ==
    /\ ~pdftk
    /\ Returned(1)
    /\ call[1].fn = "Fill"
    /\ Passed(hist[1], "exists")
    /\ IsToolMissing(loc[1].err)

IsFill(p) == call[p].fn \in {"Fill", "Fill_part000"}

\* the template path names no file: stat of it, resolved against the working
\* directory, reports that it does not exist
Missing(path) == Stat(Abs(path, TRUE).path) = "ENOENT"

ToolFailed(p) ==
    /\ hist[p].spawns # <<>>
    /\ \E i \in 1..Len(hist[p].stages) : hist[p].stages[i] = [s |-> "spawn", ok |-> FALSE]

\* C4: when pdftk cannot be spawned or exits non-zero, Fill and FillFromReader
\* of part_000 return the external-tool-execution error and no result, and the
\* error carries the output captured from the tool.
C4_ToolErrorCarriesOutput ==
    \A p \in Callers :
        Returned(p) /\ call[p].fn \in {"FillFromReader", "Fill_part000"} /\ ToolFailed(p) =>
            /\ IsToolExec(loc[p].err)
            /\ loc[p].result = <<>>
            /\ loc[p].out # <<>> => Contains(loc[p].err[1], loc[p].out[1].stdout)

\* C9: when pdftk exits with code 0, FillFromReader returns, with no error, the
\* bytes the tool wrote to standard output; the tool was invoked once, with
\* arguments - fill_form <fdf temp file> output -, the template stream on its
\* standard input and the encoded Form in the temporary file.
C9_StreamFill ==
    \A p \in Callers :
        Returned(p) /\ call[p].fn = "FillFromReader"
          /\ loc[p].out # <<>> /\ loc[p].out[1].code = 0 =>
            /\ loc[p].err = <<>>
            /\ loc[p].result = <<loc[p].out[1].stdout>>
            /\ Len(hist[p].spawns) = 1
            /\ hist[p].spawns[1].args = <<"-", "fill_form", loc[p].tmp, "output", "-">>
            /\ loc[p].tmp \in Range(hist[p].created)
            /\ hist[p].spawns[1].stdin = call[p].pdfFile
            /\ hist[p].spawns[1].fdfSeen = loc[p].fdf

C9_Witness ==
    /\ Returned(1)
    /\ call[1].fn = "FillFromReader"
    /\ call[1].form = OneField
    /\ loc[1].result = <<"%PDF-1.4 filled B">>

\* the call holds a transient working area: created, and its cleanup not yet run
Holding(p) == loc[p].tmp # "" /\ ~Returned(p)

\* C5: at every point of every interleaving the transient working areas held
\* by two calls in flight are distinct, and each call's area and FDF artifact
\* are as that call left them: no other call's creation or cleanup has removed
\* or overwritten them.
C5_DistinctAreas ==
    \A p \in Callers :
        Holding(p) =>
            /\ \A q \in Callers \ {p} : Holding(q) => loc[q].tmp # loc[p].tmp
            /\ fsys[loc[p].tmp].kind = (IF call[p].fn = "Fill" THEN "dir" ELSE "file")
            /\ hist[p].wrote # <<>> => fsys[loc[p].tmp].fdf = hist[p].wrote
            /\ hist[p].wrote = <<>> =>
                  fsys[loc[p].tmp].fdf = (IF call[p].fn = "Fill" THEN <<>> ELSE <<"">>)

C5_Witness ==
    /\ pc[1] = "wait"
    /\ pc[2] = "r_cleanup"
    /\ Holding(1) /\ Holding(2)
    /\ \E n \in TmpNames : fsys[n].kind = "dir" /\ n \in Leaked

\* the stages of a call in the order of the code, up to the spawn
Body(fn) ==
    CASE fn = "Fill" -> <<"abs", "exists", "lookpath", "tempdir", "createfdf", "spawn">>
      [] fn = "Fill_part000" -> <<"abs", "exists", "lookpath", "spawn">>
      [] OTHER -> <<"lookpath", "createtemp", "write", "spawn">>

IsPrefix(a, b) == Len(a) <= Len(b) /\ SubSeq(b, 1, Len(a)) = a

\* the stages of the call of p are a run of the pipeline body: its first stages
\* in order, each but the last successful; after a failure or after the last
\* stage the cleanup (when a transient area was created) and the return, and
\* nothing else; the call returns an error exactly when a stage failed
Linear(p, body) ==
    LET st == hist[p].stages
        names == StageNames(hist[p])
        n == Len(st)
        nb == Cardinality({i \in 1..n : st[i].s \notin {"cleanup", "return"}})
        failed == nb > 0 /\ ~st[nb].ok
        tail == IF hist[p].created # <<>> THEN <<"cleanup", "return">> ELSE <<"return">>
    IN  /\ nb <= Len(body)
        /\ \A i \in 1..nb : st[i].s = body[i] /\ (i < nb => st[i].ok)
        /\ IsPrefix(SubSeq(names, nb + 1, n), tail)
        /\ n > nb => (failed \/ nb = Len(body))
        /\ Returned(p) <=> (n > nb /\ SubSeq(names, nb + 1, n) = tail)
        /\ Returned(p) => /\ failed <=> loc[p].err # <<>>
                          /\ failed <=> loc[p].result = <<>>

====
